---- MODULE Spec2Model ----
(***************************************************************************)
(* Model of two hooks of leva:                                             *)
(*   useTransform  (packages/leva/src/hooks/useTransform.ts)               *)
(*   useCanvas2d   (the canvas hook, with its debounced resize handler)    *)
(* Each hook is one state machine; SpecTransform and SpecCanvas run them.  *)
(***************************************************************************)
EXTENDS Integers, Sequences, FiniteSets, TLC

VARIABLES
    \* ---- useTransform ----
    local,        \* local.current : the retained point {x, y}
    ref,          \* ref.current : the attached element, or Null
    style,        \* the attached (or last attached) element's style.transform
    threw,        \* whether the last set call raised a TypeError
    op,           \* history: the last operation
    calls,        \* history: the last two set calls, oldest first, each
                  \*          [point |-> its argument, el |-> ref.current then]
    before,       \* history: local.current as it was before the last set call
    writes,       \* history: number of style writes the last set call made
    \* ---- useCanvas2d ----
    phase,        \* "rendered" (hook called, effects not yet run), "mounted", "unmounted"
    fn,           \* the render callback of the latest render
    canvas,       \* canvas.current
    ctx,          \* ctx.current
    hasFired,     \* hasFired.current
    handlers,     \* the handleCanvas closures created so far: handlers[h] is the fn
                  \* that closure h captured
    listeners,    \* the closures registered for the window's resize event
    timers,       \* the pending debounce timeouts, in the order they were set
    width,        \* canvas.width  (the backing store)
    height,       \* canvas.height
    offsetWidth,  \* canvas.offsetWidth  (displayed size)
    offsetHeight, \* canvas.offsetHeight
    devicePixelRatio,
    cop,          \* history: the last operation
    renders,      \* history: number of render callback invocations
    delivered,    \* history: number of resize events delivered to a listener
    lastFired,    \* history: the timeout that expired last (its note and its
                  \* closure h), or NoNote
    typeError,    \* history: whether the last firing raised a TypeError
    ctxGets,      \* history: number of getContext calls
    age,          \* history: time since mount, capped at Wait
    quiet,        \* history: time since the last delivered resize event, capped at Wait
    firstResize,  \* history: renders and age at the first delivered resize event
    burst         \* history: resize-triggered renders since the current burst began

tvars == <<local, ref, style, threw, op, calls, before, writes>>

cvars == <<phase, fn, canvas, ctx, hasFired, handlers, listeners, timers,
           width, height, offsetWidth, offsetHeight, devicePixelRatio,
           cop, renders, delivered, lastFired, typeError, ctxGets,
           age, quiet, firstResize, burst>>

vars == <<tvars, cvars>>

Null == "null"

\* The element a host attaches to the ref.
Element == "element"

\* Coordinates passed to set; 5 and 10 are the documented example, -1 checks signs.
Values == {-1, 5, 10}

Fields == {"x", "y"}

\* The argument of set: { x?: number; y?: number }, a record over a subset of the fields.
Points == UNION {[d -> Values] : d \in SUBSET Fields}

\* Object.assign(target, source): own fields of source overwrite, the others stay.
AssignReplace(target, source) ==
    [f \in DOMAIN target |-> IF f \in DOMAIN source THEN source[f] ELSE 0]

Assign(target, source) ==
    [f \in DOMAIN target |-> IF f \in DOMAIN source THEN source[f] ELSE target[f]]

\* The template literal `translate3d(${x}px, ${y}px, 0)`.
TemplateSwapped(p) ==
    "translate3d(" \o ToString(p.y) \o "px, " \o ToString(p.x) \o "px, 0)"

Template(p) ==
    "translate3d(" \o ToString(p.x) \o "px, " \o ToString(p.y) \o "px, 0)"

\* The guard `if (ref.current)` in front of the style write.
NoGuard(r) == TRUE

NeverWrite(r) == FALSE

HasElement(r) == r # Null

InitTransform ==
    /\ local = [x |-> 0, y |-> 0]
    /\ ref = Null
    /\ style = ""
    /\ threw = FALSE
    /\ op = "init"
    /\ calls = <<>>
    /\ before = [x |-> 0, y |-> 0]
    /\ writes = 0

\* The host mounts an element and stores it in ref.current; the new element
\* carries no transform yet.
Attach ==
    /\ ref = Null
    /\ ref' = Element
    /\ style' = ""
    /\ op' = "attach"
    /\ UNCHANGED <<local, threw, calls, before, writes>>
    /\ UNCHANGED cvars

\* The host unmounts the element and clears ref.current.
Detach ==
    /\ ref # Null
    /\ ref' = Null
    /\ op' = "detach"
    /\ UNCHANGED <<local, style, threw, calls, before, writes>>
    /\ UNCHANGED cvars

\* set(point): merge, then write the style when the guard passes; a write
\* through a null ref.current is a TypeError and leaves the style alone.
Set(point) ==
    /\ local' = Assign(local, point)
    /\ IF HasElement(ref)
         THEN IF ref = Null
                THEN threw' = TRUE /\ style' = style /\ writes' = 0
                ELSE threw' = FALSE /\ style' = Template(local') /\ writes' = 1
         ELSE threw' = FALSE /\ style' = style /\ writes' = 0
    /\ calls' = IF Len(calls) < 2
                  THEN Append(calls, [point |-> point, el |-> ref])
                  ELSE <<calls[2], [point |-> point, el |-> ref]>>
    /\ before' = local
    /\ op' = "set"
    /\ UNCHANGED ref
    /\ UNCHANGED cvars

TransformStep ==
    \/ Attach
    \/ Detach
    \/ \E point \in Points : Set(point)

(***************************************************************************)
(* Claims about useTransform, checked under SpecTransform.                 *)
(***************************************************************************)
Last(q) == q[Len(q)]

\* The CSS value translate3d(tx, ty, tz) with tx, ty in px and a unitless tz.
Translate3d(tx, ty, tz) ==
    "translate3d(" \o ToString(tx) \o "px, " \o ToString(ty) \o "px, "
                   \o ToString(tz) \o ")"

\* C1: the point is (0, 0) before any set call; a field that a set call omits
\* keeps the value it had before the call and a field it gives takes the given
\* value; set({x: a}) followed by set({y: b}) leaves the point (a, b).
C1_PartialUpdate ==
    /\ calls = <<>> => local = [x |-> 0, y |-> 0]
    /\ calls # <<>> =>
          \A f \in Fields :
              local[f] = IF f \in DOMAIN Last(calls).point
                           THEN Last(calls).point[f] ELSE before[f]
    /\ (/\ Len(calls) = 2
        /\ DOMAIN calls[1].point = {"x"}
        /\ DOMAIN calls[2].point = {"y"})
          => local = [x |-> calls[1].point.x, y |-> calls[2].point.y]

\* C1 witness: set({x: 5}) then set({y: 10}) from a point whose y was -1.
C1_Witness ==
    /\ Len(calls) = 2
    /\ calls[1].point = [x |-> 5]
    /\ calls[2].point = [y |-> 10]
    /\ before = [x |-> 5, y |-> -1]
    /\ local = [x |-> 5, y |-> 10]

\* C2: right after a set call made while an element is attached, the element's
\* transform is translate3d of the merged point's x and y with z = 0, the
\* numbers written verbatim; set({x: 5, y: 10}) gives translate3d(5px, 10px, 0).
C2_StyleEncodesPoint ==
    (op = "set" /\ Last(calls).el # Null) =>
        /\ ~threw
        /\ style = Translate3d(local.x, local.y, 0)
        /\ Last(calls).point = [x |-> 5, y |-> 10]
              => style = "translate3d(5px, 10px, 0)"

\* C2 witness: a partial set on an attached element, x kept from before and
\* negative, y given.
C2_Witness ==
    /\ op = "set"
    /\ Last(calls).el = Element
    /\ Last(calls).point = [y |-> 10]
    /\ before.x = -1
    /\ style = "translate3d(-1px, 10px, 0)"

\* C3 (state part): a set call made with no element attached does not raise,
\* writes no style and still merges its fields into the point; the first set
\* call after an element is attached writes the fields set while detached.
C3_DetachedState ==
    /\ (op = "set" /\ Last(calls).el = Null) =>
          /\ ~threw
          /\ writes = 0
          /\ \A f \in DOMAIN Last(calls).point : local[f] = Last(calls).point[f]
    /\ (/\ op = "set"
        /\ Len(calls) = 2
        /\ calls[1].el = Null
        /\ calls[2].el # Null) =>
          \A f \in DOMAIN calls[1].point \ DOMAIN calls[2].point :
              /\ f = "x" => style = Translate3d(calls[1].point.x, local.y, 0)
              /\ f = "y" => style = Translate3d(local.x, calls[1].point.y, 0)

\* C3: the state part in every state, and a set call made with no element
\* attached leaves the style as it was.
C3_DetachedSet ==
    /\ []C3_DetachedState
    /\ [][(op' = "set" /\ ref = Null /\ ref' = Null) => style' = style]_vars

\* C3 witness: set({x: 5}) while detached, the element attached, then
\* set({y: 10}): the transform carries the 5 set while detached.
C3_Witness ==
    /\ op = "set"
    /\ Len(calls) = 2
    /\ calls[1] = [point |-> [x |-> 5], el |-> Null]
    /\ calls[2] = [point |-> [y |-> 10], el |-> Element]
    /\ style = "translate3d(5px, 10px, 0)"


\* C12: a set call completes without raising and makes exactly one style
\* write when an element is attached and none otherwise; the write is the
\* only change to the element and the attached element stays attached.
C12_State ==
    op = "set" =>
        /\ ~threw
        /\ writes = IF Last(calls).el # Null THEN 1 ELSE 0
        /\ ref = Last(calls).el

C12_OneWrite ==
    /\ []C12_State
    /\ [][op' = "set" => (ref' = ref /\ (style' # style => writes' = 1))]_vars

\* C12 witness: an attached set call whose single write changed the style.
C12_Witness ==
    /\ op = "set"
    /\ Last(calls).el = Element
    /\ writes = 1
    /\ threw = FALSE
    /\ style = Template(local)
    /\ before # local

(***************************************************************************)
(* useCanvas2d                                                             *)
(***************************************************************************)

\* The debounce delay passed to debounce(..., 250).
Wait == 250

\* Time advances in steps of at most TickLen.
TickLen == 125

\* Number of resize events delivered to the instance.
MaxResizes == 2

\* Number of handleCanvas closures the instance creates (effect runs).
MaxHandlers == 2

\* Identities of the render callback.
Callbacks == {"f1", "f2"}

\* Displayed sizes <<offsetWidth, offsetHeight>> and pixel densities.
Sizes == {<<100, 50>>, <<200, 80>>}

Densities == {1, 2}

NoNote == [cause |-> "none", moved |-> FALSE, h |-> 0]

NoResize == [renders |-> -1, age |-> -1]

Min(a, b) == IF a < b THEN a ELSE b

\* debounce(func, wait), the returned function called: clearTimeout of the
\* closure's pending timeout, then setTimeout(func, wait).  note is history
\* carried with the timeout: what caused the call ("initial" or "resize") and
\* whether the displayed size or density moved since the call.
DebounceCall(ts, h, cause) ==
    LET kept == SelectSeq(ts, LAMBDA t : t.h # h)
    IN  Append(kept, [h |-> h, left |-> Wait,
                      note |-> [cause |-> cause, moved |-> FALSE]])

\* History: the sizes changed, so every pending timeout's call is out of date.
Moved(ts) == [i \in 1..Len(ts) |-> [ts[i] EXCEPT !.note.moved = TRUE]]

\* `if (!hasFired.current)`
AlreadyFired(fired) == fired

AlwaysFire(fired) == TRUE

NotYetFired(fired) == ~fired

\* The context effect's deps []: it runs on the first commit only.
EveryCommit(first) == TRUE

FirstCommitOnly(first) == first

\* window.removeEventListener('resize', handleCanvas) of the effect's cleanup.
KeepListener(ls, h) == ls

RemoveListener(ls, h) == ls \ {h}

\* The backing-store size the handler assigns: displayed size times density.
BackingSizeNoDensity(ow, oh, dpr) == [width |-> ow, height |-> oh]

BackingSize(ow, oh, dpr) == [width |-> ow * dpr, height |-> oh * dpr]

\* The handleCanvas closure of the latest effect run.
Current == Len(handlers)

InitCanvas ==
    /\ phase = "rendered"
    /\ fn = "f1"
    /\ canvas = Null
    /\ ctx = Null
    /\ hasFired = FALSE
    /\ handlers = <<>>
    /\ listeners = {}
    /\ timers = <<>>
    /\ width = 300 /\ height = 150       \* a canvas element's default size
    /\ offsetWidth = 100 /\ offsetHeight = 50
    /\ devicePixelRatio = 1
    /\ cop = "init"
    /\ renders = 0
    /\ delivered = 0
    /\ lastFired = NoNote
    /\ typeError = FALSE
    /\ ctxGets = 0
    /\ age = 0
    /\ quiet = Wait
    /\ firstResize = NoResize
    /\ burst = 0

EnvUnchanged == UNCHANGED <<offsetWidth, offsetHeight, devicePixelRatio>>

\* The context effect of a commit: ctx.current = canvas.current!.getContext('2d'),
\* run when its deps say so.
ContextEffect(first) ==
    IF FirstCommitOnly(first)
      THEN ctx' = "context2d" /\ ctxGets' = ctxGets + 1
      ELSE UNCHANGED <<ctx, ctxGets>>

\* One run of the resize effect: a new debounced closure over f, registered
\* for resize, and called once if the instance has not fired yet.
ResizeEffect(f, ls, ts) ==
    LET h == Len(handlers) + 1
    IN  /\ handlers' = Append(handlers, f)
        /\ listeners' = ls \cup {h}
        /\ IF NotYetFired(hasFired)
             THEN /\ timers' = DebounceCall(ts, h, "initial")
                  /\ hasFired' = TRUE
             ELSE /\ timers' = ts
                  /\ hasFired' = hasFired

\* First commit: the host attaches the canvas element to the ref, then the
\* two effects run in order (resize effect, context effect).
Mount ==
    /\ phase = "rendered"
    /\ phase' = "mounted"
    /\ canvas' = "canvas"
    /\ EnvUnchanged
    /\ ResizeEffect(fn, listeners, timers)
    /\ ContextEffect(TRUE)
    /\ cop' = "mount"
    /\ age' = 0
    /\ UNCHANGED <<fn, width, height, renders, delivered, lastFired,
                   typeError, quiet, firstResize, burst>>
    /\ UNCHANGED tvars

\* A render with another callback identity: the resize effect's cleanup runs,
\* then the effect runs again; the context effect (deps []) is not due.
ChangeFn(f) ==
    /\ phase = "mounted"
    /\ f # fn
    /\ Len(handlers) < MaxHandlers
    /\ fn' = f
    /\ EnvUnchanged
    /\ ResizeEffect(f, RemoveListener(listeners, Current), timers)
    /\ ContextEffect(FALSE)
    /\ cop' = "changeFn"
    /\ UNCHANGED <<phase, canvas, width, height, renders, delivered,
                   lastFired, typeError, age, quiet, firstResize, burst>>
    /\ UNCHANGED tvars

\* Unmount: the host clears the canvas ref, the resize effect's cleanup runs.
Unmount ==
    /\ phase = "mounted"
    /\ phase' = "unmounted"
    /\ canvas' = Null
    /\ listeners' = RemoveListener(listeners, Current)
    /\ cop' = "unmount"
    /\ EnvUnchanged
    /\ UNCHANGED <<fn, ctx, hasFired, handlers, timers, width, height, renders,
                   delivered, lastFired, typeError, ctxGets, age, quiet,
                   firstResize, burst>>
    /\ UNCHANGED tvars

\* The pixel density or the layout changes without a resize event.
EnvChange(s, d) ==
    /\ <<s[1], s[2], d>> # <<offsetWidth, offsetHeight, devicePixelRatio>>
    /\ offsetWidth' = s[1]
    /\ offsetHeight' = s[2]
    /\ devicePixelRatio' = d
    /\ timers' = Moved(timers)
    /\ cop' = "env"
    /\ UNCHANGED <<phase, fn, canvas, ctx, hasFired, handlers, listeners,
                   width, height, renders, delivered, lastFired, typeError,
                   ctxGets, age, quiet, firstResize, burst>>
    /\ UNCHANGED tvars

\* A timeout is due: time does not pass it, and the next event is dispatched
\* after it has run.
Due == timers # <<>> /\ Head(timers).left = 0

\* The window dispatches a resize event to the listeners in hs, in
\* registration order.
RECURSIVE Dispatch(_, _)
Dispatch(ts, hs) ==
    IF hs = {} THEN ts
    ELSE LET h == CHOOSE x \in hs : \A y \in hs : x <= y
         IN  Dispatch(DebounceCall(ts, h, "resize"), hs \ {h})

\* The window is resized to displayed size s: every registered listener runs.
Resize(s) ==
    /\ ~Due
    /\ listeners # {} => delivered < MaxResizes
    /\ offsetWidth' = s[1]
    /\ offsetHeight' = s[2]
    /\ UNCHANGED devicePixelRatio
    /\ timers' = Dispatch(IF <<s[1], s[2]>> # <<offsetWidth, offsetHeight>>
                             THEN Moved(timers) ELSE timers,
                          listeners)
    /\ cop' = "resize"
    /\ IF listeners # {}
         THEN /\ delivered' = delivered + 1
              /\ quiet' = 0
              /\ burst' = IF quiet >= Wait THEN 0 ELSE burst
              /\ firstResize' = IF firstResize = NoResize
                                  THEN [renders |-> renders, age |-> age]
                                  ELSE firstResize
         ELSE UNCHANGED <<delivered, quiet, burst, firstResize>>
    /\ UNCHANGED <<phase, fn, canvas, ctx, hasFired, handlers, listeners,
                   width, height, renders, lastFired, typeError, ctxGets, age>>
    /\ UNCHANGED tvars

\* Time passes, up to the next timeout.
Advance ==
    /\ phase # "rendered"
    /\ ~Due
    /\ LET d == IF timers = <<>> THEN TickLen
                ELSE Min(TickLen, Head(timers).left)
       IN  /\ timers' = [i \in 1..Len(timers) |->
                            [timers[i] EXCEPT !.left = @ - d]]
           /\ age' = Min(Wait, age + d)
           /\ quiet' = Min(Wait, quiet + d)
    /\ cop' = "advance"
    /\ EnvUnchanged
    /\ UNCHANGED <<phase, fn, canvas, ctx, hasFired, handlers, listeners,
                   width, height, renders, delivered, lastFired, typeError,
                   ctxGets, firstResize, burst>>
    /\ UNCHANGED tvars

\* The earliest timeout expires and the debounced function body runs:
\*   canvas.current!.width = canvas.current!.offsetWidth * window.devicePixelRatio
\*   canvas.current!.height = canvas.current!.offsetHeight * window.devicePixelRatio
\*   fn(canvas.current, ctx.current)
\* With canvas.current null the first line raises a TypeError.
Fire ==
    /\ Due
    /\ LET t == Head(timers)
           size == BackingSize(offsetWidth, offsetHeight, devicePixelRatio)
       IN  /\ timers' = Tail(timers)
           /\ lastFired' = [cause |-> t.note.cause, moved |-> t.note.moved, h |-> t.h]
           /\ IF canvas = Null
                THEN /\ typeError' = TRUE
                     /\ UNCHANGED <<width, height, renders, burst>>
                ELSE /\ typeError' = FALSE
                     /\ width' = size.width
                     /\ height' = size.height
                     /\ renders' = renders + 1
                     /\ burst' = IF t.note.cause = "resize" THEN burst + 1 ELSE burst
    /\ cop' = "fire"
    /\ EnvUnchanged
    /\ UNCHANGED <<phase, fn, canvas, ctx, hasFired, handlers, listeners,
                   delivered, ctxGets, age, quiet, firstResize>>
    /\ UNCHANGED tvars

CanvasStep ==
    \/ Mount
    \/ \E f \in Callbacks : ChangeFn(f)
    \/ Unmount
    \/ \E s \in Sizes : Resize(s)
    \/ \E s \in Sizes, d \in Densities : EnvChange(s, d)
    \/ Advance
    \/ Fire

(***************************************************************************)
(* Specifications: each hook instance on its own.                          *)
(***************************************************************************)
Init == InitTransform /\ InitCanvas

SpecTransform == Init /\ [][TransformStep]_vars

SpecCanvas == Init /\ [][CanvasStep]_vars

(***************************************************************************)
(* Claims about useCanvas2d, checked under SpecCanvas.                     *)
(***************************************************************************)
\* The last step was a timeout expiring whose handler body ran to its end:
\* the backing store written and the render callback invoked.
Rendered == cop = "fire" /\ ~typeError

\* The pending timeouts without their history notes.
Pending(ts) == [i \in 1..Len(ts) |-> <<ts[i].h, ts[i].left>>]

\* C4 as stated: on first attachment the render callback is invoked
\* immediately, as part of the attachment step, without waiting for the delay.
C4_ImmediateInitialRender ==
    cop = "mount" => renders = 1

\* C4 as amended: the attachment step calls the debounced handler but invokes
\* no render callback; it leaves one timeout of the full 250 pending, and the
\* initial render happens when 250 have passed since attachment.
C4_InitialRenderDebounced ==
    /\ cop = "mount" =>
          /\ renders = 0
          /\ Pending(timers) = <<(<<1, Wait>>)>>
          /\ timers[1].note.cause = "initial"
    /\ (Rendered /\ lastFired.cause = "initial") => age = Wait

\* C4 witness: the initial render has happened, 250 after attachment.
C4_Witness ==
    /\ Rendered
    /\ lastFired.cause = "initial"
    /\ renders = 1
    /\ age = Wait

C6_OneRenderPerBurst ==
    /\ burst <= 1
    /\ (phase = "mounted" /\ delivered > 0 /\ quiet >= Wait /\ ~Due) => burst = 1
    /\ (Rendered /\ lastFired.cause = "resize") => quiet >= Wait

\* C7: after unmount no resize listener is registered, and a resize event
\* delivered then sets no timeout, reaches no listener and invokes no render.
C7_Unsubscribed ==
    /\ [](phase = "unmounted" => listeners = {})
    /\ [][(phase = "unmounted" /\ cop' = "resize") =>
             /\ Pending(timers') = Pending(timers)
             /\ delivered' = delivered
             /\ renders' = renders]_vars

\* C7 witness: a resize event after unmount.
C7_Witness ==
    /\ phase = "unmounted"
    /\ cop = "resize"
    /\ delivered > 0

\* C8 as stated: tearing down cancels the pending debounced render, so after
\* unmount no timeout is pending and no handler body runs.
C8_TeardownCancelsPending ==
    phase = "unmounted" => (timers = <<>> /\ cop # "fire")

\* C9 as stated: after the callback identity changed, every firing invokes the
\* latest callback, never a previous one.
C9_LatestCallback ==
    Rendered => handlers[lastFired.h] = fn

\* C10: at every firing that reaches the render callback, canvas.width is
\* offsetWidth * devicePixelRatio and canvas.height is offsetHeight *
\* devicePixelRatio, with the values current when the timeout expires.
C10_BackingStore ==
    Rendered =>
        /\ width = offsetWidth * devicePixelRatio
        /\ height = offsetHeight * devicePixelRatio

\* C10 witness: a resize render at density 2 whose displayed size or density
\* changed between the resize event and the firing.
C10_Witness ==
    /\ Rendered
    /\ lastFired.cause = "resize"
    /\ lastFired.moved
    /\ devicePixelRatio = 2
    /\ width = 2 * offsetWidth

\* C11: the 2D context is obtained exactly once, in the attachment step, and
\* ctx.current is left as it is by every later resize event, firing, callback
\* change and unmount.
C11_ContextOnce ==
    /\ [](phase = "rendered" => (ctxGets = 0 /\ ctx = Null))
    /\ [](phase # "rendered" => (ctxGets = 1 /\ ctx = "context2d"))
    /\ [][phase # "rendered" => (ctx' = ctx /\ ctxGets' = ctxGets)]_vars

\* C11 witness: after a callback change, a resize event and a render under
\* the new closure, still one getContext call.
C11_Witness ==
    /\ Rendered
    /\ lastFired.h = 2
    /\ delivered > 0
    /\ ctxGets = 1
    /\ ctx = "context2d"

\* C13 as stated: whenever the handler body runs, canvas.current is set (no
\* TypeError on the dereference) and ctx.current has been acquired.
C13_HandlerRefsSet ==
    cop = "fire" => (~typeError /\ canvas # Null /\ ctx # Null)

\* C14: at most one resize listener of the instance is registered at any
\* time: none before mount, the latest closure alone while mounted, none after
\* unmount.
C14_SingleSubscription ==
    /\ Cardinality(listeners) <= 1
    /\ phase = "mounted" => listeners = {Current}
    /\ phase # "mounted" => listeners = {}

\* C14 witness: mounted, after a callback change and a resize event, with the
\* second closure as the only listener.
C14_Witness ==
    /\ phase = "mounted"
    /\ Len(handlers) = 2
    /\ listeners = {2}
    /\ delivered > 0

\* C15: only the first run of the resize effect calls the handler itself: an
\* initial timeout belongs to the first closure; right after a callback change
\* nothing is pending for the new closure; a render under a later closure is
\* always a resize render.
C15_OneShotInitial ==
    /\ \A i \in 1..Len(timers) :
          timers[i].note.cause = "initial" => timers[i].h = 1
    /\ cop = "changeFn" => \A i \in 1..Len(timers) : timers[i].h # Current
    /\ (cop = "fire" /\ lastFired.h > 1) => lastFired.cause = "resize"
    /\ (phase = "mounted" /\ Current > 1 /\ delivered = 0) =>
          \A i \in 1..Len(timers) : timers[i].h = 1

\* C15 witness: the callback changed after the initial render, no resize
\* event since: nothing pending, the new callback not invoked.
C15_Witness ==
    /\ cop = "changeFn"
    /\ renders = 1
    /\ delivered = 0
    /\ timers = <<>>
    /\ fn = "f2"

\* C16: the renders and the pending timeouts together never exceed the
\* handler calls made (one initial call plus one per delivered resize event),
\* so renders <= 1 + delivered and each render consumed a call of its own.
C16_RenderBound ==
    /\ renders + Len(timers) <= 1 + delivered
    /\ renders <= 1 + delivered
    /\ hasFired = (phase # "rendered")

\* C16 witness: the bound reached, an initial render and one render for each
\* of two resize events.
C16_Witness ==
    /\ delivered = 2
    /\ renders = 3
    /\ timers = <<>>

====
